---- MODULE Spec2Model ----
(***************************************************************************)
(* Model of socha/api/plugin/penguins/game_state.py: the GameState class,  *)
(* its move generation, turn resolution, validation and the transition     *)
(* perform_move.                                                           *)
(*                                                                         *)
(* Python objects that the code copies, shares or mutates (Team) live in a *)
(* heap, `teams`: a reference is an index into it.  GameState objects live *)
(* in `states`; a GameState holds its Board by value (Board.move returns a *)
(* new Board) and its two Teams by reference.  Board, Field, Penguin, Move *)
(* and the coordinate classes are collaborators whose code is outside      *)
(* game_state.py; they are modelled from their documented contract.        *)
(*                                                                         *)
(* Five specifications share the variables:                                *)
(*   Spec            one caller, perform_move on any GameState alive;      *)
(*   SpecGame        one caller playing on from the last GameState;        *)
(*   SpecBoards      the same on Boards with either rule for slides;       *)
(*   SpecConcurrent  two callers on one GameState, statement by statement; *)
(*   SpecRound       the round property read for small and large turns.    *)
(***************************************************************************)
EXTENDS Integers, Sequences, FiniteSets, TLC

VARIABLES states, teams, call, threads

vars == <<states, teams, call, threads>>

(* ------------------------------ bounds -------------------------------- *)
\* Board dimensions (Board.width(), Board.height()).
Width == 4
Height == 3
\* Largest resource count of a Field in an initial board.
MaxFish == 3
\* Largest number of unoccupied Fields with a resource in an initial board.
MaxFree == 2
\* A run calls perform_move while fewer than MaxStates GameState objects
\* exist.
MaxStates == 3
\* The round is read for turn counters up to MaxTurn above 0, below
\* 2 ^ Mantissa and above 2 ^ Mantissa.
MaxTurn == 40

(* -------------------------- program constants ------------------------- *)
\* `< 4`: a team with fewer penguins on the board is in the placement phase.
PenguinLimit == 4
\* The significant bits of the float that `(self.turn + 1) / 2` evaluates to.
Mantissa == 53

(* --------------------------- value types ------------------------------ *)
TeamEnum == {"ONE", "TWO"}

\* Python None for an Optional[HexCoordinate]; coordinates are <<x, y>>.
None == <<>>
\* Python None for an Optional[Team] reference.
NoTeam == 0

Penguin(team_enum, coordinate) ==
  [team_enum |-> team_enum, coordinate |-> coordinate]

\* Python None for Field.penguin.
NoPenguin == [team_enum |-> "None", coordinate |-> None]

Move(team_enum, from_value, to_value) ==
  [team_enum |-> team_enum, from_value |-> from_value, to_value |-> to_value]

\* Python None for GameState.last_move.
NoMove == [team_enum |-> "None", from_value |-> None, to_value |-> None]

Field(fish, penguin) == [fish |-> fish, penguin |-> penguin]

Team(name, penguins, fish, moves, opp) ==
  [name |-> name, penguins |-> penguins, fish |-> fish, moves |-> moves,
   opponent |-> opp]

\* GameState.__init__
GameState(board, turn, first_team, second_team, last_move) ==
  [board |-> board, turn |-> turn, first_team |-> first_team,
   second_team |-> second_team, last_move |-> last_move]

(* ---------------------------- coordinates ----------------------------- *)
\* CartesianCoordinate(x, y).to_hex(): offset grid index to doubled hex index.
to_hex(c) == <<c[1] * 2 + (IF c[2] % 2 = 1 THEN 1 ELSE 0), c[2]>>

\* HexCoordinate.to_cartesian(): the inverse of to_hex.
to_cartesian(h) == <<(h[1] - (IF h[2] % 2 = 1 THEN 1 ELSE 0)) \div 2, h[2]>>

(* ------------------------------- Board -------------------------------- *)
\* The rules by which a Board may enumerate the slides of a penguin.  The rule
\* is the Board's own: game_state.py takes what possible_moves_from returns.
\*   "fish"        a slide runs over and ends on unoccupied Fields that carry
\*                 fish (the rule of the game);
\*   "unoccupied"  a slide runs over and ends on unoccupied Fields, with or
\*                 without fish.
SlideRules == {"fish", "unoccupied"}

\* A Board is the list of its rows, a row the list of its Fields
\* (rows[y + 1][x + 1] is the Field at CartesianCoordinate(x, y)), together
\* with the rule by which it enumerates slides.
Board(rows, slides) == [rows |-> rows, slides |-> slides]

width(b) == Len(b.rows[1])

height(b) == Len(b.rows)

\* Board.is_valid(hex): the coordinate addresses a Field of the board.
is_valid(b, h) ==
  /\ h[2] >= 0 /\ h[2] < height(b)
  /\ h[1] >= (IF h[2] % 2 = 1 THEN 1 ELSE 0)
  /\ (h[1] - h[2]) % 2 = 0
  /\ to_cartesian(h)[1] < width(b)

get_field(b, h) == b.rows[to_cartesian(h)[2] + 1][to_cartesian(h)[1] + 1]

is_occupied(field) == field.penguin # NoPenguin

get_fish(field) == field.fish

\* Board.get_teams_penguins(team_enum): the penguins of the team on the board,
\* row by row.
get_teams_penguins(b, team_enum) ==
  LET fields == [k \in 1 .. width(b) * height(b) |->
                   b.rows[((k - 1) \div width(b)) + 1][((k - 1) % width(b)) + 1]]
      own == SelectSeq(fields, LAMBDA field : field.penguin.team_enum = team_enum)
  IN [k \in 1 .. Len(own) |-> own[k].penguin]

\* The six neighbour directions in doubled hex coordinates.
Directions == << <<1, -1>>, <<-2, 0>>, <<1, 1>>, <<-1, 1>>, <<2, 0>>, <<-1, -1>> >>

\* A slide may run over and end on a Field of the board that is unoccupied
\* and, by the rule "fish", still carries a resource.
is_destination_valid(b, h) ==
  /\ is_valid(b, h)
  /\ ~is_occupied(get_field(b, h))
  /\ b.slides = "fish" => get_fish(get_field(b, h)) > 0

\* The slides from `origin` along direction d, from distance i on, up to the
\* first Field that blocks.
RECURSIVE moves_in_direction(_, _, _, _, _)
moves_in_direction(b, origin, d, i, team_enum) ==
  LET destination == <<origin[1] + i * d[1], origin[2] + i * d[2]>>
  IN IF is_destination_valid(b, destination)
     THEN <<Move(team_enum, origin, destination)>>
          \o moves_in_direction(b, origin, d, i + 1, team_enum)
     ELSE <<>>

RECURSIVE moves_in_directions(_, _, _, _)
moves_in_directions(b, origin, k, team_enum) ==
  IF k > Len(Directions) THEN <<>>
  ELSE moves_in_direction(b, origin, Directions[k], 1, team_enum)
       \o moves_in_directions(b, origin, k + 1, team_enum)

\* Board.possible_moves_from(position, team_enum): the slides of the team's
\* penguin standing on `position`.
possible_moves_from(b, position, team_enum) ==
  IF get_field(b, position).penguin.team_enum # team_enum
  THEN <<>>
  ELSE moves_in_directions(b, position, 1, team_enum)

\* Board.move(move): a new Board; the destination is harvested to 0 and holds
\* the moving penguin, the source Field (if any) is vacated.
board_move(b, mv) ==
  Board([y \in 1 .. height(b) |->
           [x \in 1 .. width(b) |->
              IF <<x - 1, y - 1>> = to_cartesian(mv.to_value)
              THEN Field(0, Penguin(mv.team_enum, mv.to_value))
              ELSE IF mv.from_value # None
                      /\ <<x - 1, y - 1>> = to_cartesian(mv.from_value)
                   THEN Field(get_fish(b.rows[y][x]), NoPenguin)
                   ELSE b.rows[y][x]]],
        b.slides)

(* ------------------------------ GameState ----------------------------- *)
\* Operators on a GameState take the heap of Teams `tm` and the GameState
\* record `s`; a Team argument is a reference into tm, or NoTeam.

\* Mutant: a placement is generated for every unoccupied Field with fish.
placement_moves_any_fish(b, team_enum) ==
  LET cells == [k \in 1 .. width(b) * height(b) |->
                  <<(k - 1) \div height(b), (k - 1) % height(b)>>]
      open == SelectSeq(cells, LAMBDA c :
                \E field \in {get_field(b, to_hex(c))} :
                  ~is_occupied(field) /\ get_fish(field) >= 1)
  IN [k \in 1 .. Len(open) |-> Move(team_enum, None, to_hex(open[k]))]

\* The placement moves of _get_possible_moves: for x in range(width), for y in
\* range(height), one Move per unoccupied Field with exactly one fish.
placement_moves(b, team_enum) ==
  LET cells == [k \in 1 .. width(b) * height(b) |->
                  <<(k - 1) \div height(b), (k - 1) % height(b)>>]
      open == SelectSeq(cells, LAMBDA c :
                \E field \in {get_field(b, to_hex(c))} :
                  ~is_occupied(field) /\ get_fish(field) = 1)
  IN [k \in 1 .. Len(open) |-> Move(team_enum, None, to_hex(open[k]))]

\* The slide moves of _get_possible_moves: for each penguin of the team on the
\* board, the board's slides from its coordinate.
RECURSIVE slide_moves(_, _, _, _)
slide_moves(b, team_enum, pieces, k) ==
  IF k > Len(pieces) THEN <<>>
  ELSE possible_moves_from(b, pieces[k].coordinate, team_enum)
       \o slide_moves(b, team_enum, pieces, k + 1)

\* The body of _get_possible_moves for a Team that is not None.
moves_of_team(tm, s, team) ==
  IF Len(get_teams_penguins(s.board, tm[team].name)) < PenguinLimit
  THEN placement_moves(s.board, tm[team].name)
  ELSE slide_moves(s.board, tm[team].name,
                   get_teams_penguins(s.board, tm[team].name), 1)

\* Mutant: the parity test is inverted.
current_team_from_turn_inverted(tm, s, t) ==
  LET possible_moves_first == moves_of_team(tm, s, s.first_team)
      possible_moves_second == moves_of_team(tm, s, s.second_team)
  IN IF t % 2 = 1
     THEN IF possible_moves_first # <<>> THEN s.first_team
          ELSE IF possible_moves_second # <<>> THEN s.second_team
          ELSE NoTeam
     ELSE IF possible_moves_second # <<>> THEN s.second_team
          ELSE IF possible_moves_first # <<>> THEN s.first_team
          ELSE NoTeam

\* Mutant: the parity alone decides, a team without a move is not skipped.
current_team_from_turn_no_skip(tm, s, t) ==
  IF t % 2 = 0 THEN s.first_team ELSE s.second_team

\* GameState.current_team_from_turn(turn)
current_team_from_turn(tm, s, t) ==
  LET possible_moves_first == moves_of_team(tm, s, s.first_team)
      possible_moves_second == moves_of_team(tm, s, s.second_team)
  IN IF t % 2 = 0
     THEN IF possible_moves_first # <<>> THEN s.first_team
          ELSE IF possible_moves_second # <<>> THEN s.second_team
          ELSE NoTeam
     ELSE IF possible_moves_second # <<>> THEN s.second_team
          ELSE IF possible_moves_first # <<>> THEN s.first_team
          ELSE NoTeam

\* GameState.current_team
current_team(tm, s) == current_team_from_turn(tm, s, s.turn)

\* GameState._get_possible_moves(current_team): `current_team or
\* self.current_team`, the empty list when that is None.
get_possible_moves(tm, s, team) ==
  LET current == IF team # NoTeam THEN team ELSE current_team(tm, s)
  IN IF current = NoTeam THEN <<>> ELSE moves_of_team(tm, s, current)

\* GameState.possible_moves
possible_moves(tm, s) == get_possible_moves(tm, s, current_team(tm, s))

\* The ways two Moves may compare equal.  The comparison is Move's own
\* (Move.__eq__), game_state.py only uses it through `in`.
\*   "fields"       acting team, source and destination are equal;
\*   "coordinates"  source and destination are equal.
MoveEqualities == {"fields", "coordinates"}

\* a == b for two Moves.
move_equal(a, b, equality) ==
  /\ a.from_value = b.from_value
  /\ a.to_value = b.to_value
  /\ equality = "fields" => a.team_enum = b.team_enum

\* `x in seq` for a Move x and a list of Moves: some element compares equal.
Contains(seq, x, equality) ==
  \E i \in 1 .. Len(seq) : move_equal(x, seq[i], equality)

\* Mutant: the Move is looked up by source and destination only, however
\* Moves compare.
is_valid_move_any_side(tm, s, mv, equality) ==
  \E m \in {possible_moves(tm, s)[i] : i \in 1 .. Len(possible_moves(tm, s))} :
    m.from_value = mv.from_value /\ m.to_value = mv.to_value

\* GameState.is_valid_move(move)
is_valid_move(tm, s, mv, equality) ==
  Contains(possible_moves(tm, s), mv, equality)

\* A turn counter is a Python int, which has no upper limit, while `/` gives
\* a float with Mantissa significant bits.  Where the size matters an integer
\* n is held as the pair <<hi, lo>> with n = hi * Limb + lo and 0 <= lo < Limb.
Limb == 2 ^ 27

Wide(n) == <<n \div Limb, n % Limb>>

Narrow(w) == w[1] * Limb + w[2]

\* n + 1 on a wide integer.
wide_succ(w) == IF w[2] + 1 = Limb THEN <<w[1] + 1, 0>> ELSE <<w[1], w[2] + 1>>

\* n // 2 on a wide integer.
wide_half(w) == <<w[1] \div 2, (w[2] + (w[1] % 2) * Limb) \div 2>>

\* n < 2 ^ Mantissa: the float holds n exactly.
fits_mantissa(w) == w[1] < 2 ^ (Mantissa - 27)

\* int(n / 2) for 0 <= n < 2 ^ (Mantissa + 1): the quotient is q or q + 0.5
\* with q = n // 2.  A float below 2 ^ (Mantissa - 1) holds q + 0.5 exactly
\* and int() truncates it to q; from there on floats are whole numbers and
\* the division rounds q + 0.5 to the even one of q and q + 1.
int_of_true_half(w) ==
  LET q == wide_half(w)
  IN IF w[2] % 2 = 0 \/ fits_mantissa(w) THEN q
     ELSE IF q[2] % 2 = 0 THEN q ELSE wide_succ(q)

\* int((turn + 1) / 2) for a turn given as a wide integer.
round_of_turn(w) == int_of_true_half(wide_succ(w))

\* GameState.round
round(s) == Narrow(round_of_turn(Wide(s.turn)))

\* GameState.opponent(team)
opponent(tm, s, team) ==
  LET t == IF team # NoTeam THEN team ELSE current_team(tm, s)
  IN tm[t].opponent

\* GameState.other_team
other_team(tm, s) == tm[current_team(tm, s)].opponent

(* ---------------------------- perform_move ---------------------------- *)
\* Mutant: the Team is not copied, the new GameState shares the object.
pickle_shares(tm, team) == [teams |-> tm, ref |-> team]

\* pickle.loads(pickle.dumps(team)): a deep copy of the Team and of what it
\* references, its opponent included (whose opponent is the copy itself).
\* The result is the heap with the two new objects and the reference to the
\* copy of the Team.
pickle_loads_dumps(tm, team) ==
  LET n == Len(tm)
      t == tm[team]
  IN IF t.opponent = NoTeam
     THEN [teams |-> Append(tm, t), ref |-> n + 1]
     ELSE [teams |-> tm \o << [t EXCEPT !.opponent = n + 2],
                              [tm[t.opponent] EXCEPT !.opponent = n + 1] >>,
           ref |-> n + 1]

\* The index of the first penguin of the list standing on `coordinate`, 0 when
\* there is none: next(filter(lambda x: x.coordinate == ..., penguins), None).
RECURSIVE first_penguin_at(_, _, _)
first_penguin_at(pieces, coordinate, k) ==
  IF k > Len(pieces) THEN 0
  ELSE IF pieces[k].coordinate = coordinate THEN k
  ELSE first_penguin_at(pieces, coordinate, k + 1)

\* The fish credited by _update_team: read from the receiver's (old) board.
adding_fish(s, mv) == get_fish(get_field(s.board, mv.to_value))

\* GameState._update_team(team, move, new_board): mutates the Team object
\* `team` in place; the result is the heap after the mutation.
update_team(tm, s, team, mv, new_board) ==
  LET new_penguin == get_field(new_board, mv.to_value).penguin
      t == tm[team]
      k == first_penguin_at(t.penguins, mv.from_value, 1)
      pieces == IF k # 0
                THEN [t.penguins EXCEPT ![k].coordinate = new_penguin.coordinate]
                ELSE Append(t.penguins, new_penguin)
  IN [tm EXCEPT ![team] = Team(t.name, pieces, t.fish + adding_fish(s, mv),
                               Append(t.moves, mv), t.opponent)]

\* Mutant: only the acting side is compared, the list of moves is not read.
move_accepted_by_side(tm, mv, current, legal, equality) ==
  current # NoTeam /\ tm[current].name = mv.team_enum

\* The condition of perform_move's if, given the values the two properties
\* it reads evaluate to: `legal` is self.possible_moves, `current` is
\* self.current_team.  (`and` does not read current.name when the Move is not
\* in the list, which is always so when current is None.)
move_accepted(tm, mv, current, legal, equality) ==
  /\ Contains(legal, mv, equality)
  /\ tm[current].name = mv.team_enum

\* Which of the two copies perform_move hands to _update_team.
team_to_update(tm, current, new_first_team, new_second_team) ==
  IF tm[current].name = "ONE" THEN new_first_team ELSE new_second_team

\* Mutant: the copies keep the opponent references pickle gave them.
relink_skipped(tm, new_first_team, new_second_team) == tm

\* new_first_team.opponent = new_second_team;
\* new_second_team.opponent = new_first_team
relink(tm, new_first_team, new_second_team) ==
  [tm EXCEPT ![new_first_team].opponent = new_second_team,
             ![new_second_team].opponent = new_first_team]

\* Mutant: the turn is not advanced.
new_turn_kept(s) == s.turn

new_turn(s) == s.turn + 1

new_last_move(mv) == mv

\* The body of perform_move on the GameState st[sid], given what
\* self.current_team and self.possible_moves evaluate to on it: the outcome
\* is either the ValueError (nothing allocated, nothing changed) or the heaps
\* with the new GameState appended.
perform_move_on(st, tm, sid, mv, current, legal, equality) ==
  LET s == st[sid]
  IN IF move_accepted(tm, mv, current, legal, equality)
     THEN LET new_board == board_move(s.board, mv)
              c1 == pickle_loads_dumps(tm, s.first_team)
              c2 == pickle_loads_dumps(c1.teams, s.second_team)
              new_first_team == c1.ref
              new_second_team == c2.ref
              updated == update_team(c2.teams, s,
                           team_to_update(tm, current, new_first_team,
                                          new_second_team),
                           mv, new_board)
              linked == relink(updated, new_first_team, new_second_team)
          IN [raised |-> FALSE,
              states |-> Append(st, GameState(new_board, new_turn(s),
                                    new_first_team, new_second_team,
                                    new_last_move(mv))),
              teams |-> linked]
     ELSE [raised |-> TRUE, states |-> st, teams |-> tm]

\* GameState.perform_move(move) on the GameState st[sid].
perform_move(st, tm, sid, mv, equality) ==
  perform_move_on(st, tm, sid, mv, current_team(tm, st[sid]),
                  possible_moves(tm, st[sid]), equality)

(* ------------------------------- Init --------------------------------- *)
\* The resource counts of the free Fields of an initial board: all one, or
\* cycling through 1, MaxFish, MaxFish - 1, ..., 2, or all MaxFish.
FishPatterns == {"ones", "cycle", "max"}

\* The resource count of the j-th free Field of an initial board.
InitFish(j, pattern) ==
  CASE pattern = "ones" -> 1
    [] pattern = "cycle" -> 1 + ((j * (MaxFish - 1)) % MaxFish)
    [] pattern = "max" -> MaxFish

\* Where the unoccupied Fields carrying fish lie in an initial board: between
\* the penguins of the two teams, or behind those of team TWO.
Layouts == {"between", "behind"}

\* An initial board, row by row: k1 penguins of team ONE, MaxFree unoccupied
\* Fields carrying fish and k2 penguins of team TWO (the free Fields before or
\* after team TWO, by the layout), then harvested Fields.
InitBoard(k1, k2, pattern, layout, slides) ==
  LET free == IF layout = "between" THEN k1 ELSE k1 + k2
      two == IF layout = "between" THEN k1 + MaxFree ELSE k1
  IN Board([y \in 1 .. Height |->
              [x \in 1 .. Width |->
                 LET i == (y - 1) * Width + (x - 1)
                     c == <<x - 1, y - 1>>
                 IN IF i < k1 THEN Field(0, Penguin("ONE", to_hex(c)))
                    ELSE IF i >= free /\ i < free + MaxFree
                    THEN Field(InitFish(i - free, pattern), NoPenguin)
                    ELSE IF i >= two /\ i < two + k2
                    THEN Field(0, Penguin("TWO", to_hex(c)))
                    ELSE Field(0, NoPenguin)]],
           slides)

OtherEnum(team_enum) == IF team_enum = "ONE" THEN "TWO" ELSE "ONE"

\* The numbers of penguins a team has on an initial board: one short of the
\* movement phase, and all of them.
InitPenguins == (PenguinLimit - 1) .. PenguinLimit

\* A well-formed GameState as the constructor receives it: either team may be
\* the first team, each Team's penguin list is the board's, the two Teams are
\* each other's opponent, and the turn counts the pieces placed so far.
InitObjects(first, k1, k2, pattern, layout, slides) ==
  /\ k1 + MaxFree + k2 <= Width * Height
  /\ LET b == InitBoard(k1, k2, pattern, layout, slides)
     IN /\ teams = << Team(first, get_teams_penguins(b, first), 0, <<>>, 2),
                      Team(OtherEnum(first),
                           get_teams_penguins(b, OtherEnum(first)), 0, <<>>, 1) >>
        /\ states = << GameState(b, k1 + k2, 1, 2, NoMove) >>

\* One caller: perform_move is called on the GameStates one call at a time.
Init ==
  /\ \E first \in TeamEnum, k1 \in InitPenguins, k2 \in InitPenguins,
        pattern \in FishPatterns :
       InitObjects(first, k1, k2, pattern, "between", "fish")
  /\ call = [op |-> "init", receiver |-> 0, move |-> NoMove, raised |-> FALSE]
  /\ threads = <<>>

(* ------------------------------ actions ------------------------------- *)
Range(seq) == {seq[i] : i \in 1 .. Len(seq)}

\* The coordinates of the unoccupied Fields of the board that carry fish.
FreeFishy(b) ==
  {to_hex(<<x, y>>) : <<x, y>> \in
     {c \in (0 .. width(b) - 1) \X (0 .. height(b) - 1) :
        /\ ~is_occupied(b.rows[c[2] + 1][c[1] + 1])
        /\ get_fish(b.rows[c[2] + 1][c[1] + 1]) > 0}}

\* The Moves a caller hands to perform_move on the GameState s: the legal
\* moves of the team whose turn it is, each also with the other acting side,
\* a placement by either team on every unoccupied Field that carries fish,
\* and a placement on the first Field by either team.
MoveInputs(tm, s) ==
  LET legal == Range(possible_moves(tm, s))
  IN legal
     \union {Move(OtherEnum(m.team_enum), m.from_value, m.to_value) : m \in legal}
     \union {Move(t, None, h) : t \in TeamEnum, h \in FreeFishy(s.board)}
     \union {Move(t, None, to_hex(<<0, 0>>)) : t \in TeamEnum}

\* One call of perform_move(mv) on the GameState states[sid]; the properties
\* current_team and possible_moves are evaluated on the receiver.  A call is
\* taken for each way Moves may compare.
Call(sid, mv, r) ==
  /\ states' = r.states
  /\ teams' = r.teams
  /\ call' = [op |-> "perform_move", receiver |-> sid, move |-> mv,
              raised |-> r.raised]
  /\ UNCHANGED threads

\* perform_move returns a new GameState.
PerformMoveReturn ==
  /\ ~call.raised
  /\ Len(states) < MaxStates
  /\ \E sid \in DOMAIN states :
       \E current \in {current_team(teams, states[sid])} :
         \E legal \in {get_possible_moves(teams, states[sid], current)} :
           \E mv \in MoveInputs(teams, states[sid]), equality \in MoveEqualities :
             \E r \in {perform_move_on(states, teams, sid, mv, current, legal,
                                       equality)} :
               ~r.raised /\ Call(sid, mv, r)

\* perform_move raises ValueError: the exception leaves perform_move and the
\* run of the caller ends with it.
PerformMoveRaise ==
  /\ ~call.raised
  /\ Len(states) < MaxStates
  /\ \E sid \in DOMAIN states :
       \E current \in {current_team(teams, states[sid])} :
         \E legal \in {get_possible_moves(teams, states[sid], current)} :
           \E mv \in MoveInputs(teams, states[sid]), equality \in MoveEqualities :
             \E r \in {perform_move_on(states, teams, sid, mv, current, legal,
                                       equality)} :
               r.raised /\ Call(sid, mv, r)

Next == PerformMoveReturn \/ PerformMoveRaise

Spec == Init /\ [][Next]_vars

(* ------------------------- concurrent callers ------------------------- *)
\* Two callers run perform_move on the same GameState, states[1], each in a
\* thread of its own.  A thread holds the argument and the local variables of
\* its call; the heap of Teams and the list of GameStates are shared.  One
\* step of a thread is one statement of perform_move.
Callers == {1, 2}

Thread(mv) ==
  [pc |-> "validate", move |-> mv, new_board |-> <<>>,
   new_first_team |-> NoTeam, new_second_team |-> NoTeam, result |-> 0]

InitConcurrent ==
  /\ \E first \in TeamEnum, k1 \in InitPenguins, k2 \in InitPenguins,
        pattern \in FishPatterns :
       InitObjects(first, k1, k2, pattern, "between", "fish")
  /\ call = [op |-> "concurrent", receiver |-> 1, move |-> NoMove,
             raised |-> FALSE]
  /\ \E mv1 \in Range(possible_moves(teams, states[1])),
        mv2 \in Range(possible_moves(teams, states[1])) :
       /\ mv1 # mv2
       /\ threads = << Thread(mv1), Thread(mv2) >>

\* The thread p is at `pc`; the step leaves the other thread alone.
At(p, pc) == threads[p].pc = pc

\* if self.is_valid_move(move) and self.current_team.name == move.team_enum
Validate(p) ==
  /\ At(p, "validate")
  /\ \E equality \in MoveEqualities :
       threads' = [threads EXCEPT ![p].pc =
         IF /\ is_valid_move(teams, states[1], threads[p].move, equality)
            /\ teams[current_team(teams, states[1])].name
                 = threads[p].move.team_enum
         THEN "board_move" ELSE "raised"]
  /\ UNCHANGED <<states, teams, call>>

\* new_board = self.board.move(move)
BoardMove(p) ==
  /\ At(p, "board_move")
  /\ threads' = [threads EXCEPT
       ![p].new_board = board_move(states[1].board, threads[p].move),
       ![p].pc = "copy_first"]
  /\ UNCHANGED <<states, teams, call>>

\* new_first_team = pickle.loads(pickle.dumps(self.first_team))
CopyFirst(p) ==
  /\ At(p, "copy_first")
  /\ \E c \in {pickle_loads_dumps(teams, states[1].first_team)} :
       /\ teams' = c.teams
       /\ threads' = [threads EXCEPT ![p].new_first_team = c.ref,
                                     ![p].pc = "copy_second"]
  /\ UNCHANGED <<states, call>>

\* new_second_team = pickle.loads(pickle.dumps(self.second_team))
CopySecond(p) ==
  /\ At(p, "copy_second")
  /\ \E c \in {pickle_loads_dumps(teams, states[1].second_team)} :
       /\ teams' = c.teams
       /\ threads' = [threads EXCEPT ![p].new_second_team = c.ref,
                                     ![p].pc = "update"]
  /\ UNCHANGED <<states, call>>

\* if self.current_team.name == TeamEnum.ONE: self._update_team(...)
UpdateTeam(p) ==
  /\ At(p, "update")
  /\ teams' = update_team(teams, states[1],
                 team_to_update(teams, current_team(teams, states[1]),
                                threads[p].new_first_team,
                                threads[p].new_second_team),
                 threads[p].move, threads[p].new_board)
  /\ threads' = [threads EXCEPT ![p].pc = "relink"]
  /\ UNCHANGED <<states, call>>

\* new_first_team.opponent = ...; new_second_team.opponent = ...
Relink(p) ==
  /\ At(p, "relink")
  /\ teams' = relink(teams, threads[p].new_first_team,
                     threads[p].new_second_team)
  /\ threads' = [threads EXCEPT ![p].pc = "return"]
  /\ UNCHANGED <<states, call>>

\* return GameState(board=new_board, turn=new_turn, ...)
Return(p) ==
  /\ At(p, "return")
  /\ states' = Append(states,
                  GameState(threads[p].new_board, new_turn(states[1]),
                            threads[p].new_first_team,
                            threads[p].new_second_team,
                            new_last_move(threads[p].move)))
  /\ threads' = [threads EXCEPT ![p].result = Len(states) + 1,
                                ![p].pc = "done"]
  /\ UNCHANGED <<teams, call>>

NextConcurrent ==
  \E p \in Callers :
    \/ Validate(p)
    \/ BoardMove(p)
    \/ CopyFirst(p)
    \/ CopySecond(p)
    \/ UpdateTeam(p)
    \/ Relink(p)
    \/ Return(p)

SpecConcurrent == InitConcurrent /\ [][NextConcurrent]_vars

(* ------------------------- playing a game out ------------------------- *)
\* One caller plays on: perform_move is called on the GameState the previous
\* call has returned, with one of its legal moves, as long as there is one.
PlayMove ==
  \E sid \in {Len(states)} :
    \E current \in {current_team(teams, states[sid])} :
      \E legal \in {get_possible_moves(teams, states[sid], current)} :
        \E mv \in Range(legal), equality \in MoveEqualities :
          \E r \in {perform_move_on(states, teams, sid, mv, current, legal,
                                    equality)} :
            ~r.raised /\ Call(sid, mv, r)

NextGame == PlayMove

SpecGame == Init /\ [][NextGame]_vars

(* --------------------- boards with either slide rule ------------------ *)
\* One caller plays on from an initial GameState in which both teams are in
\* the movement phase and whose Board enumerates slides by either rule, with
\* the free Fields in either layout.
InitBoards ==
  /\ \E first \in TeamEnum, pattern \in FishPatterns, layout \in Layouts,
        slides \in SlideRules :
       InitObjects(first, PenguinLimit, PenguinLimit, pattern, layout, slides)
  /\ call = [op |-> "init", receiver |-> 0, move |-> NoMove, raised |-> FALSE]
  /\ threads = <<>>

\* The caller plays a legal move while fewer than MaxStates GameStates exist.
PlayOn == Len(states) < MaxStates /\ PlayMove

NextBoards == PlayOn

SpecBoards == InitBoards /\ [][NextBoards]_vars

(* --------------------------- reading round ---------------------------- *)
\* The turn counters of the GameStates whose round is read.
RoundInputs ==
  {<<0, k>> : k \in 0 .. MaxTurn}
    \union {<<2 ^ (Mantissa - 27) - 1, Limb - 1 - k>> : k \in 0 .. MaxTurn}
    \union {<<2 ^ (Mantissa - 27), k>> : k \in 0 .. MaxTurn}

\* A GameState with the turn counter `turn` exists; the property reads
\* nothing else of it.
InitRound ==
  /\ states = <<>>
  /\ teams = <<>>
  /\ threads = <<>>
  /\ \E t \in RoundInputs :
       call = [op |-> "init", receiver |-> 0, move |-> NoMove,
               raised |-> FALSE, turn |-> t, result |-> <<0, 0>>]

\* The caller reads GameState.round.
ReadRound ==
  /\ call.op = "init"
  /\ call' = [call EXCEPT !.op = "round", !.result = round_of_turn(call.turn)]
  /\ UNCHANGED <<states, teams, threads>>

NextRound == ReadRound

SpecRound == InitRound /\ [][NextRound]_vars

(* ------------------------- vocabulary of the claims ------------------- *)
\* What an observer sees of a Team: identity, pieces, score, move history.
TeamView(tm, team) ==
  [name |-> tm[team].name, penguins |-> tm[team].penguins,
   fish |-> tm[team].fish, moves |-> tm[team].moves]

\* What an observer sees of the GameState st[sid].
View(st, tm, sid) ==
  [turn |-> st[sid].turn, board |-> st[sid].board,
   first_team |-> TeamView(tm, st[sid].first_team),
   second_team |-> TeamView(tm, st[sid].second_team),
   last_move |-> st[sid].last_move]

\* The GameStates the last step has constructed: each GameState is examined
\* in the state in which it first exists.
Snapshots ==
  IF call.op = "init" THEN {1}
  ELSE IF call.raised THEN {}
  ELSE {Len(states)}

\* The last step was a call of perform_move that returned / that raised.
Returned == call.op = "perform_move" /\ ~call.raised

Raised == call.op = "perform_move" /\ call.raised

\* The receiver of the last call and the GameState it returned.
Old == states[call.receiver]

New == states[Len(states)]

\* The team has at least one legal move on the board of s.
HasMove(tm, s, team) == get_possible_moves(tm, s, team) # <<>>

\* The legal-move set of the team whose turn it is (empty when there is none).
LegalSet(tm, s) == Range(possible_moves(tm, s))

\* The identity of the team whose turn it is ("None" when there is none).
CurrentName(tm, s) ==
  IF current_team(tm, s) = NoTeam THEN "None" ELSE tm[current_team(tm, s)].name

\* The Team of s that carries the identity `name`.
TeamNamed(tm, s, name) ==
  CHOOSE team \in {s.first_team, s.second_team} : tm[team].name = name

\* The Move is one perform_move has to refuse: there is no current team, or
\* the acting side is not the current team's identity, or the Move is not in
\* the legal-move set of the current team.
Invalid(tm, s, mv) ==
  \E current \in {current_team(tm, s)} :
    \/ current = NoTeam
    \/ mv.team_enum # tm[current].name
    \/ mv \notin Range(get_possible_moves(tm, s, current))

(* -------------------------------- C1 ---------------------------------- *)
\* C1: every GameState that exists before a call of perform_move shows the
\* same turn, board, first team, second team (identity, pieces, score, move
\* history) and last move after the call as before it.
C1_EarlierStatesUnchanged ==
  [][\A sid \in DOMAIN states :
       View(states', teams', sid) = View(states, teams, sid)]_vars

\* Two successors have been derived from the same ancestor by different Moves.
C1_Witness ==
  /\ Returned
  /\ Len(states) = 3
  /\ call.receiver = 1
  /\ states[2].last_move # states[3].last_move

(* -------------------------------- C2 ---------------------------------- *)
\* C2: a call of perform_move with a Move whose acting side is not the
\* current team's identity, or that is not in the legal-move set of the
\* current team (every Move when the receiver is terminal), raises, adds no
\* GameState and leaves the heap, the receiver included, as it was.
C2_InvalidMoveRaises ==
  [][Invalid(teams, states[call'.receiver], call'.move)
       => /\ call'.raised
          /\ states' = states
          /\ teams' = teams]_vars

\* A Move of the wrong acting side to a destination that is legal for the
\* current team has been refused.
C2_Witness ==
  /\ Raised
  /\ CurrentName(teams, Old) # "None"
  /\ call.move.team_enum # CurrentName(teams, Old)
  /\ Move(CurrentName(teams, Old), call.move.from_value, call.move.to_value)
       \in LegalSet(teams, Old)

(* -------------------------------- C3 ---------------------------------- *)
\* The turn values current_team_from_turn is asked about on the GameState s.
TurnInputs(s) == {0, 1, s.turn, s.turn + 1}

\* C3: current_team_from_turn(turn) depends on whether the first team and
\* whether the second team have a legal move on the board: for an even turn
\* it is the first team if that has a move, else the second team if that has
\* one; for an odd turn the second team if that has a move, else the first
\* team if that has one; undefined when neither has a move.
C3_CurrentTeamFromTurn ==
  \A sid \in Snapshots :
    \E h1 \in {HasMove(teams, states[sid], states[sid].first_team)},
       h2 \in {HasMove(teams, states[sid], states[sid].second_team)} :
      \A t \in TurnInputs(states[sid]) :
        \E r \in {current_team_from_turn(teams, states[sid], t)} :
          /\ (t % 2 = 0 /\ h1) => r = states[sid].first_team
          /\ (t % 2 = 0 /\ ~h1 /\ h2) => r = states[sid].second_team
          /\ (t % 2 = 1 /\ h2) => r = states[sid].second_team
          /\ (t % 2 = 1 /\ ~h2 /\ h1) => r = states[sid].first_team
          /\ (~h1 /\ ~h2) => r = NoTeam

\* perform_move has returned a GameState with an even turn in which the first
\* team has no move and the second team has one: the turn is the second
\* team's.
C3_Witness ==
  /\ Returned
  /\ New.turn % 2 = 0
  /\ ~HasMove(teams, New, New.first_team)
  /\ HasMove(teams, New, New.second_team)
  /\ current_team_from_turn(teams, New, New.turn) = New.second_team

(* -------------------------------- C4 ---------------------------------- *)
\* C4: in every GameState, current_team is undefined exactly when neither
\* team has a legal move, and exactly when possible_moves is empty.
C4_TerminalEquivalence ==
  \A sid \in Snapshots :
    \E h1 \in {HasMove(teams, states[sid], states[sid].first_team)},
       h2 \in {HasMove(teams, states[sid], states[sid].second_team)},
       current \in {current_team(teams, states[sid])} :
      /\ (current = NoTeam) <=> (~h1 /\ ~h2)
      /\ (current = NoTeam) <=> (possible_moves(teams, states[sid]) = <<>>)

\* perform_move has returned a terminal GameState.
C4_Witness ==
  /\ Returned
  /\ current_team(teams, New) = NoTeam
  /\ possible_moves(teams, New) = <<>>

(* -------------------------------- C5 ---------------------------------- *)
\* C5: the GameState perform_move(move) returns has the receiver's turn plus
\* one and has `move` as its last move.
C5_TurnAndLastMove ==
  Returned => /\ New.turn = Old.turn + 1
              /\ New.last_move = call.move

\* perform_move has returned after a skipped turn: the team that moved is not
\* the one the parity of the receiver's turn prefers.
C5_Witness ==
  /\ Returned
  /\ current_team(teams, Old) =
       (IF Old.turn % 2 = 0 THEN Old.second_team ELSE Old.first_team)

(* -------------------------------- C6 ---------------------------------- *)
\* C6: on every successful perform_move the score of the team with the
\* current team's identity grows by the fish of the destination Field in the
\* receiver's board, and the destination Field of the new board holds 0 fish.
C6_ScoreConservation ==
  Returned =>
    \E name \in {CurrentName(teams, Old)} :
      /\ teams[TeamNamed(teams, New, name)].fish
           - teams[TeamNamed(teams, Old, name)].fish
         = get_fish(get_field(Old.board, call.move.to_value))
      /\ get_fish(get_field(New.board, call.move.to_value)) = 0

(* -------------------------------- C7 ---------------------------------- *)
\* C7: on every successful perform_move the Team of the new GameState that
\* carries the current team's identity is the one that got the Move appended
\* to its history, a piece on the destination and the fish credited.
C7_MoverCopyUpdated ==
  Returned =>
    \E name \in {CurrentName(teams, Old)} :
      \E o \in {teams[TeamNamed(teams, Old, name)]},
         n \in {teams[TeamNamed(teams, New, name)]} :
        /\ n.moves = Append(o.moves, call.move)
        /\ n.fish = o.fish + get_fish(get_field(Old.board, call.move.to_value))
        /\ \E i \in 1 .. Len(n.penguins) :
             n.penguins[i].coordinate = call.move.to_value

(* -------------------------------- C8 ---------------------------------- *)
\* C8: on every successful perform_move the Team of the new GameState that
\* did not move shows the same identity, pieces, score and move history as
\* the Team of that identity in the receiver.
C8_OtherTeamUnchanged ==
  Returned =>
    \E other \in {OtherEnum(CurrentName(teams, Old))} :
      TeamView(teams, TeamNamed(teams, New, other))
        = TeamView(teams, TeamNamed(teams, Old, other))

(* -------------------------------- C9 ---------------------------------- *)
\* The placements the claim lists for a team: one Move without source per
\* unoccupied Field with exactly one fish.
PlacementSet(b, name) ==
  {Move(name, None, to_hex(c)) :
     c \in {d \in (0 .. width(b) - 1) \X (0 .. height(b) - 1) :
             /\ ~is_occupied(b.rows[d[2] + 1][d[1] + 1])
             /\ get_fish(b.rows[d[2] + 1][d[1] + 1]) = 1}}

\* C9: for a Team that owns fewer than 4 pieces the legal-move set is exactly
\* one placement per unoccupied Field with exactly one fish.
C9_PlacementMoves ==
  \A sid \in Snapshots :
    \A team \in {states[sid].first_team, states[sid].second_team} :
      Len(teams[team].penguins) < PenguinLimit =>
        Range(get_possible_moves(teams, states[sid], team))
          = PlacementSet(states[sid].board, teams[team].name)

(* -------------------------------- C10 --------------------------------- *)
\* Both conditions of the validity rule hold for the Move: it is in `legal`,
\* the legal-move set of the current team, and its acting side is the
\* identity of `current`, the current team.
BothConditions(tm, mv, current, legal) ==
  /\ current # NoTeam
  /\ mv \in legal
  /\ mv.team_enum = tm[current].name

\* Some Move of `legal` has the source and the destination of the Move.
CoordinatesIn(mv, legal) ==
  \E m \in legal : m.from_value = mv.from_value /\ m.to_value = mv.to_value

C11_AtMostFourPieces ==
  \A sid \in Snapshots :
    /\ Len(teams[states[sid].first_team].penguins) <= PenguinLimit
    /\ Len(teams[states[sid].second_team].penguins) <= PenguinLimit

(* -------------------------------- C12 --------------------------------- *)
\* C12: in every GameState perform_move returns, the first team's opponent
\* is that GameState's second team and the second team's opponent is its
\* first team, so opponent(team) and other_team are Teams of the same
\* GameState.
C12_OpponentsSameGeneration ==
  Returned =>
    /\ teams[New.first_team].opponent = New.second_team
    /\ teams[New.second_team].opponent = New.first_team
    /\ opponent(teams, New, New.first_team) = New.second_team
    /\ opponent(teams, New, New.second_team) = New.first_team
    /\ \E current \in {current_team(teams, New)} :
         current # NoTeam =>
           /\ opponent(teams, New, NoTeam) \in {New.first_team, New.second_team} \ {current}
           /\ other_team(teams, New) \in {New.first_team, New.second_team} \ {current}

\* perform_move has returned a GameState that has a team to move, and the
\* opponent of that team is the other Team of the same GameState.
C12_Witness ==
  /\ Returned
  /\ current_team(teams, New) # NoTeam
  /\ other_team(teams, New) \in {New.first_team, New.second_team}
  /\ other_team(teams, New) # current_team(teams, New)

(* -------------------------------- C13 --------------------------------- *)
\* The last call was perform_move with a placement Move (no source) of the
\* team whose turn it is onto an unoccupied Field with 3 fish.
PlacementOnThree ==
  /\ call.op = "perform_move"
  /\ call.move.from_value = None
  /\ ~is_occupied(get_field(Old.board, call.move.to_value))
  /\ get_fish(get_field(Old.board, call.move.to_value)) = 3
  /\ \E current \in {current_team(teams, Old)} :
       current # NoTeam /\ call.move.team_enum = teams[current].name

\* C13 as stated: a placement Move onto a Field with 3 fish yields a
\* successor in which the mover's score has grown by 3, a Piece of the mover
\* stands on the coordinate, and the Field holds 0 fish and is occupied.
C13_PlacementOnThreeYieldsSuccessor ==
  PlacementOnThree =>
    /\ ~call.raised
    /\ teams[TeamNamed(teams, New, call.move.team_enum)].fish
         = teams[TeamNamed(teams, Old, call.move.team_enum)].fish + 3
    /\ get_field(New.board, call.move.to_value)
         = Field(0, Penguin(call.move.team_enum, call.move.to_value))

\* C13, amended: a placement Move onto a Field with 3 fish is not a legal
\* move (placements exist for Fields with exactly one fish only):
\* perform_move raises, returns no GameState and leaves the heap as it was.
C13_PlacementOnThreeRaises ==
  [][PlacementOnThree' => /\ call'.raised
                          /\ states' = states
                          /\ teams' = teams]_vars

\* A team in its placement phase has tried to place a Piece on an unoccupied
\* Field with 3 fish, and perform_move has raised.
C13_Witness ==
  /\ PlacementOnThree
  /\ Raised
  /\ Len(get_teams_penguins(Old.board, call.move.team_enum)) < PenguinLimit

(* -------------------------------- C14 --------------------------------- *)
\* What the caller of perform_move(mv) on states[1] sees of the successor when
\* the call runs alone on the ancestor.
AloneView(mv, equality) ==
  LET r == perform_move(<<states[1]>>, SubSeq(teams, 1, 2), 1, mv, equality)
  IN View(r.states, r.teams, 2)

\* C14: when two callers run perform_move with different valid Moves on the
\* same ancestor and their steps interleave in any order, the ancestor shows
\* the same turn, board, Teams and last move throughout, the Team copies of
\* the two calls are four different objects none of which is a Team of the
\* ancestor, and each caller obtains the successor it obtains when run alone.
C14_ConcurrentCallers ==
  /\ [][View(states', teams', 1) = View(states, teams, 1)]_vars
  /\ [](\A p \in Callers :
          /\ ~At(p, "raised")
          /\ At(p, "done") =>
               \A equality \in MoveEqualities :
                 View(states, teams, threads[p].result)
                   = AloneView(threads[p].move, equality))
  /\ []((\A p \in Callers : threads[p].new_second_team # NoTeam) =>
          /\ Cardinality({threads[1].new_first_team, threads[1].new_second_team,
                          threads[2].new_first_team, threads[2].new_second_team}) = 4
          /\ \A p \in Callers :
               {threads[p].new_first_team, threads[p].new_second_team}
                 \cap {states[1].first_team, states[1].second_team} = {})

\* Both calls have returned, and their steps were interleaved: the first
\* caller copied its Teams before the second did and returned after it.
C14_Witness ==
  /\ call.op = "concurrent"
  /\ At(1, "done") /\ At(2, "done")
  /\ threads[1].new_first_team < threads[2].new_first_team
  /\ threads[2].new_first_team < threads[1].new_second_team
  /\ threads[1].result > threads[2].result

(* -------------------------------- C15 --------------------------------- *)
\* C15: for every GameState whose turn counter is t >= 0, the round property
\* equals floor((t + 1) / 2).
C15_RoundIsFloor ==
  call.op = "round" => call.result = wide_half(wide_succ(call.turn))

(* -------------------------------- C16 --------------------------------- *)
\* C16: every Move generated for a Team that owns fewer than 4 Pieces has no
\* source; the Moves generated for a Team that owns 4 Pieces are the slides
\* the board returns for the Team's Pieces, all of them, so the source of
\* each is the coordinate of one of the Team's Pieces.
C16_SourcesByPhase ==
  \A sid \in Snapshots :
    \A team \in {states[sid].first_team, states[sid].second_team} :
      \E own \in {teams[team].penguins},
         generated \in {Range(get_possible_moves(teams, states[sid], team))} :
        /\ Len(own) < PenguinLimit =>
             \A m \in generated : m.from_value = None
        /\ Len(own) = PenguinLimit =>
             /\ generated =
                  UNION {Range(possible_moves_from(states[sid].board,
                                                   own[i].coordinate,
                                                   teams[team].name)) :
                           i \in 1 .. Len(own)}
             /\ \A m \in generated :
                  \E i \in 1 .. Len(own) : m.from_value = own[i].coordinate

(* -------------------------------- C17 --------------------------------- *)
\* C17: after a successful perform_move with a slide (a Move with a source)
\* the source Field of the new board is unoccupied, the mover's Team has as
\* many Pieces as before, none of them on the source and exactly one of them
\* on the destination.
C17_SlideMovesThePiece ==
  (Returned /\ call.move.from_value # None) =>
    \E o \in {teams[TeamNamed(teams, Old, call.move.team_enum)].penguins},
       n \in {teams[TeamNamed(teams, New, call.move.team_enum)].penguins} :
      /\ ~is_occupied(get_field(New.board, call.move.from_value))
      /\ Len(n) = Len(o)
      /\ \A i \in 1 .. Len(n) : n[i].coordinate # call.move.from_value
      /\ Cardinality({i \in 1 .. Len(n) :
                        n[i].coordinate = call.move.to_value}) = 1

(* -------------------------------- C18 --------------------------------- *)
\* The coordinates of the Pieces the Team owns, and of the Fields of the board
\* occupied by a piece of the Team's identity.
OwnedCoordinates(tm, team) ==
  {tm[team].penguins[i].coordinate : i \in 1 .. Len(tm[team].penguins)}

BoardCoordinates(b, team_enum) ==
  {get_teams_penguins(b, team_enum)[i].coordinate :
     i \in 1 .. Len(get_teams_penguins(b, team_enum))}

\* C18: in every GameState reachable by perform_move from a well-formed
\* initial GameState the coordinates of each Team's Pieces are those of the
\* board Fields occupied by that Team, and the Team owns as many Pieces as the
\* board holds of it, so the phase read from the board is the phase read
\* from the Team.
C18_PiecesMatchBoard ==
  \A sid \in Snapshots :
    \A team \in {states[sid].first_team, states[sid].second_team} :
      /\ OwnedCoordinates(teams, team)
           = BoardCoordinates(states[sid].board, teams[team].name)
      /\ (Len(teams[team].penguins) < PenguinLimit)
           <=> (Len(get_teams_penguins(states[sid].board, teams[team].name))
                  < PenguinLimit)

(* -------------------------------- C19 --------------------------------- *)
\* The Team of s that does not carry the identity `name`.
TeamNotNamed(tm, s, name) ==
  CHOOSE team \in {s.first_team, s.second_team} : tm[team].name # name

\* The team that is to move in the GameState perform_move has returned is the
\* team that has just moved.
MovesAgain ==
  /\ Returned
  /\ \E current \in {current_team(teams, New)} :
       current # NoTeam /\ teams[current].name = call.move.team_enum

\* The team that has just moved is the team the parity of the receiver's turn
\* prefers; otherwise it has moved because the other team's turn was skipped.
MoverPreferred ==
  current_team(teams, Old) =
    (IF Old.turn % 2 = 0 THEN Old.first_team ELSE Old.second_team)

NonZeroFields(b) ==
  Cardinality({c \in (1 .. width(b)) \X (1 .. height(b)) :
                 get_fish(b.rows[c[2]][c[1]]) > 0})

\* The GameState the last call has returned (the initial one before any).
Latest == states[Len(states)]

\* The sequence can go on: perform_move returns for some Move.
CanContinue ==
  \E mv \in MoveInputs(teams, Latest), equality \in MoveEqualities :
    ~perform_move(states, teams, Len(states), mv, equality).raised

\* C20: every sequence of successful perform_move calls is finite and ends in
\* a terminal GameState (current_team undefined): every transition takes one
\* Field with a non-zero resource count to 0, so the number of transitions
\* made plus the number of such Fields left is their number in the starting
\* board, and a GameState from which no call succeeds is terminal.
C20_GameEnds ==
  /\ Len(states) - 1 + NonZeroFields(Latest.board)
       = NonZeroFields(states[1].board)
  /\ CanContinue \/ current_team(teams, Latest) = NoTeam

\* A sequence of two transitions has ended in a terminal GameState whose
\* board has no Field with fish left.
C20_Witness ==
  /\ Returned
  /\ Len(states) = 3
  /\ Len(states) - 1 = NonZeroFields(states[1].board)
  /\ current_team(teams, Latest) = NoTeam

====
